---- MODULE Spec2Model ----
(***************************************************************************)
(* Model of src/clob/fetch_markets.py: the pagination loop of              *)
(* fetch_all_markets against an arbitrary transport, the classifier        *)
(* filter_current_markets and the extractor extract_market_names over      *)
(* arbitrary record sequences, and the run of main with its exit codes     *)
(* and its two save_json calls.                                            *)
(***************************************************************************)
EXTENDS Integers, Sequences, FiniteSets, TLC

\* ------------------------------------------------------------------------
\* Bounds of the model
\* ------------------------------------------------------------------------
\* largest max_pages argument explored
MaxPagesArg == 3
\* the max_pages arguments explored go down to -NegPagesArg (non-positive
\* caps are legal ints)
NegPagesArg == 1
\* longest "data" list a page carries
MaxPageLen == 2
\* longest input sequence handed to filter_current_markets
MaxLen == 2
\* largest --max-pages explored in the runs of main
MaxPagesMain == 2

\* ------------------------------------------------------------------------
\* JSON / Python values.  Every value is named by a string so that values
\* of different Python types can be compared in the model.
\* ------------------------------------------------------------------------
\* dict.get(key) on a missing key, and JSON null
None == "None"
\* a key that is not in the mapping
Absent == "<absent>"
JTrue == "True"
JFalse == "False"
JZero == "0"
JEmptyStr == ""

\* Python truthiness (the operand of `not`) of the values above
Truthy(v) == v \notin {JFalse, None, JZero, JEmptyStr}

\* Python `v == False`: holds of False and of the integer 0
PyEqFalse(v) == v \in {JFalse, JZero}

\* dict.get(field, default)
Get(market, field, default) ==
    IF market[field] = Absent THEN default ELSE market[field]

\* values the closed / archived fields range over
FieldValues == {Absent, JTrue, JFalse, None, JZero, JEmptyStr}

\* a mapping record with the two classifier fields
Market(c, a) == [dict |-> TRUE, closed |-> c, archived |-> a]

\* an element of the list that is not a mapping (a string, a number, ...)
NonDict == [dict |-> FALSE, closed |-> Absent, archived |-> Absent]

Entries == {NonDict} \cup {Market(c, a) : c \in FieldValues, a \in FieldValues}

\* Values of the name fields.  A string is the sequence of its characters;
\* a key that is missing is not in the DOMAIN of the record.
Str(cs) == [kind |-> "str", chars |-> cs]
\* None: JSON null, and what dict.get returns for a missing key
NoneValue == [kind |-> "null", chars |-> <<>>]
\* a value that is not a string (a number)
NumValue == [kind |-> "int", chars |-> <<>>]

SeqsUpTo(S, n) == UNION {[1..k -> S] : k \in 0..n}

\* ------------------------------------------------------------------------
\* The transport: what one call of client.get_markets can produce
\* ------------------------------------------------------------------------
\* the initial cursor
Sentinel == "MA=="

\* continuation tokens a server may answer with (None: key absent or null)
Tokens == {None, "", Sentinel, "A", "B"}

\* records the pages of the runs are made of: an open market with a padded
\* question, and a closed one with a title
RecordPool ==
    {Market(JFalse, JFalse) @@ [question |-> Str(<<" ", "Q">>)],
     Market(JTrue, JFalse) @@ [title |-> Str(<<"T">>)]}

\* kind "page":      a dict with a list under "data"
\* kind "baddata":   a dict whose "data" is not iterable (null)
\* kind "nodata":    a dict without the "data" key
\* kind "notdict":   a response that is not a dict
\* kind "exception": the call raised an Exception subclass
\* kind "interrupt": the call raised KeyboardInterrupt
Outcome(k, d, t) == [kind |-> k, data |-> d, next_cursor |-> t]

Pages == {Outcome("page", d, t) : d \in SeqsUpTo(RecordPool, MaxPageLen), t \in Tokens}

\* isinstance(response, dict) and "data" in response
HasData(response) == response.kind \in {"page", "baddata"}

Malformed == {Outcome("nodata", <<>>, t) : t \in {None, "A"}} \cup {Outcome("notdict", <<>>, None)}

Faults == {Outcome("exception", <<>>, None), Outcome("baddata", <<>>, None)}

Interrupts == {Outcome("interrupt", <<>>, None)}

\* ------------------------------------------------------------------------
\* main: arguments, destinations, exit codes
\* ------------------------------------------------------------------------
DEFAULT_OUTPUT_FILENAME == "markets.json"
DEFAULT_NAMES_OUTPUT_FILENAME == "market_names.json"
DEFAULT_CURRENT_MARKETS_FILENAME == "current_markets.json"
DEFAULT_CURRENT_NAMES_FILENAME == "current_market_names.json"

\* paths given with --out and --names-out
CustomOut == "out.json"
CustomNamesOut == "names_out.json"

Paths == {DEFAULT_OUTPUT_FILENAME, DEFAULT_NAMES_OUTPUT_FILENAME,
          DEFAULT_CURRENT_MARKETS_FILENAME, DEFAULT_CURRENT_NAMES_FILENAME,
          CustomOut, CustomNamesOut}

\* a path nothing was written to
Unwritten == [state |-> "unwritten", data |-> <<>>]

NoFiles == [p \in Paths |-> Unwritten]

\* the arguments when no option is given
NoArgs == [current |-> FALSE, out |-> None, names_out |-> None]

\* return 0 / return 1 / return 130
ExitOk == 0
ExitFail == 1
ExitInterrupt == 130
\* main has not returned
NoExit == 0 - 1

\* ------------------------------------------------------------------------
\* State
\* ------------------------------------------------------------------------
VARIABLES
    pc,              \* position of the run: "loop", "returned", "raised" in
                     \* fetch_all_markets; "filter", "filtered", "refiltered" for
                     \* the classifier; "extract", "extracted" for the extractor;
                     \* "main", "save_markets", "names", "save_names", "exited"
                     \* in main
    max_pages,       \* argument of fetch_all_markets
    all_markets,     \* the list built by fetch_all_markets
    cursor,          \* cursor the next call will send
    page_count,      \* pages counted so far
    calls,           \* log of the transport: cursor sent and outcome, per call
    current_markets, \* result of filter_current_markets(all_markets)
    refiltered,      \* result of filter_current_markets(current_markets)
    names,           \* result of extract_market_names
    args,            \* parsed arguments of main: current, out, names_out
    files,           \* what each destination path holds
    saves,           \* log of the save_json calls: path, data and outcome
    exit_code,       \* value main returned, NoExit while it runs
    faults           \* log of what was raised in main outside the page loop
                     \* and outside save_json: where, and which exception

vars == <<pc, max_pages, all_markets, cursor, page_count, calls, current_markets, refiltered,
          names, args, files, saves, exit_code, faults>>

\* ------------------------------------------------------------------------
\* fetch_all_markets
\* ------------------------------------------------------------------------
\* the cap compared with <= instead of <
LoopGuard_OffByOne == page_count <= max_pages

\* while page_count < max_pages
LoopGuard == page_count < max_pages

\* the stop test without the comparison with the cursor just sent
StopAfterPage_NoCycleCheck(next_cursor, sent) == ~Truthy(next_cursor)

\* the stop test without the test for an absent or empty token
StopAfterPage_NoEmptyCheck(next_cursor, sent) == next_cursor = sent

\* if not next_cursor or next_cursor == cursor: break
StopAfterPage(next_cursor, sent) == ~Truthy(next_cursor) \/ next_cursor = sent

\* the page put in front of the accumulated list
Extend_Prepend(lst, markets) == markets \o lst

\* all_markets.extend(markets)
Extend(lst, markets) == lst \o markets

\* response = client.get_markets(next_cursor=cursor)
Call(response) == Append(calls, [cursor |-> cursor, response |-> response])

\* a dict with a "data" list: extend, count, then stop or thread the cursor
FetchPage ==
    /\ pc = "loop"
    /\ LoopGuard
    /\ \E response \in Pages :
        /\ HasData(response)
        /\ calls' = Call(response)
        /\ all_markets' = Extend(all_markets, response.data)
        /\ page_count' = page_count + 1
        /\ IF StopAfterPage(response.next_cursor, cursor)
              THEN pc' = "returned" /\ cursor' = cursor
              ELSE pc' = "loop" /\ cursor' = response.next_cursor
    /\ UNCHANGED <<max_pages, current_markets, refiltered, names, args, files, saves, exit_code, faults>>

\* the else-branch discarding what was accumulated
FetchMalformed_Discards ==
    /\ pc = "loop"
    /\ LoopGuard
    /\ \E response \in Malformed :
        /\ ~HasData(response)
        /\ calls' = Call(response)
    /\ pc' = "returned"
    /\ all_markets' = <<>>
    /\ UNCHANGED <<max_pages, cursor, page_count, current_markets, refiltered, names, args, files, saves, exit_code, faults>>

\* else-branch: unexpected response format, break
FetchMalformed ==
    /\ pc = "loop"
    /\ LoopGuard
    /\ \E response \in Malformed :
        /\ ~HasData(response)
        /\ calls' = Call(response)
    /\ pc' = "returned"
    /\ UNCHANGED <<max_pages, all_markets, cursor, page_count, current_markets, refiltered, names, args, files, saves, exit_code, faults>>

\* a handler that lets the fault leave the function
FetchFault_Propagates ==
    /\ pc = "loop"
    /\ LoopGuard
    /\ \E response \in Faults : calls' = Call(response)
    /\ pc' = "raised"
    /\ UNCHANGED <<max_pages, all_markets, cursor, page_count, current_markets, refiltered, names, args, files, saves, exit_code, faults>>

\* except Exception: the call raised, or extend raised TypeError on a "data"
\* that is not iterable (before page_count is incremented); log and break
FetchFault ==
    /\ pc = "loop"
    /\ LoopGuard
    /\ \E response \in Faults : calls' = Call(response)
    /\ pc' = "returned"
    /\ UNCHANGED <<max_pages, all_markets, cursor, page_count, current_markets, refiltered, names, args, files, saves, exit_code, faults>>

\* a handler that catches the interrupt like a transport fault
FetchInterrupt_Absorbed ==
    /\ pc = "loop"
    /\ LoopGuard
    /\ \E response \in Interrupts : calls' = Call(response)
    /\ pc' = "returned"
    /\ UNCHANGED <<max_pages, all_markets, cursor, page_count, current_markets, refiltered, names, args, files, saves, exit_code, faults>>

\* KeyboardInterrupt is not an Exception: it leaves fetch_all_markets
FetchInterrupt ==
    /\ pc = "loop"
    /\ LoopGuard
    /\ \E response \in Interrupts : calls' = Call(response)
    /\ pc' = "raised"
    /\ UNCHANGED <<max_pages, all_markets, cursor, page_count, current_markets, refiltered, names, args, files, saves, exit_code, faults>>

\* the loop condition fails: return all_markets
LoopExit ==
    /\ pc = "loop"
    /\ ~LoopGuard
    /\ pc' = "returned"
    /\ UNCHANGED <<max_pages, all_markets, cursor, page_count, calls, current_markets, refiltered, names, args, files, saves, exit_code, faults>>

Init ==
    /\ pc = "loop"
    /\ max_pages \in (0 - NegPagesArg)..MaxPagesArg
    /\ all_markets = <<>>
    /\ cursor = Sentinel
    /\ page_count = 0
    /\ calls = <<>>
    /\ current_markets = <<>>
    /\ refiltered = <<>>
    /\ names = <<>>
    /\ args = NoArgs
    /\ files = NoFiles
    /\ saves = <<>>
    /\ exit_code = NoExit
    /\ faults = <<>>

Next == FetchPage \/ FetchMalformed \/ FetchFault \/ FetchInterrupt \/ LoopExit

Spec == Init /\ [][Next]_vars

\* the run is sequential and every transport call returns or raises, so a
\* step that can be taken is taken
SpecFair == Init /\ [][Next]_vars /\ WF_vars(Next)

\* ------------------------------------------------------------------------
\* filter_current_markets
\* ------------------------------------------------------------------------
\* missing fields defaulting to False instead of True
IsCurrent_DefaultOpen(market) ==
    LET is_closed == Get(market, "closed", JFalse)
        is_archived == Get(market, "archived", JFalse)
    IN  ~Truthy(is_closed) /\ ~Truthy(is_archived)

\* is_closed = market.get("closed", True); is_archived = market.get("archived", True)
\* if not is_closed and not is_archived
IsCurrent(market) ==
    LET is_closed == Get(market, "closed", JTrue)
        is_archived == Get(market, "archived", JTrue)
    IN  ~Truthy(is_closed) /\ ~Truthy(is_archived)

\* the body of `for market in markets`, from index i on, current being the
\* list built so far
RECURSIVE FilterLoop(_, _, _)
FilterLoop(markets, i, current) ==
    IF i > Len(markets) THEN current
    ELSE IF ~markets[i].dict THEN FilterLoop(markets, i + 1, current)
    ELSE IF IsCurrent(markets[i]) THEN FilterLoop(markets, i + 1, Append(current, markets[i]))
    ELSE FilterLoop(markets, i + 1, current)

\* the loop starting at the second entry
filter_current_markets_SkipFirst(markets) == FilterLoop(markets, 2, <<>>)

filter_current_markets(markets) == FilterLoop(markets, 1, <<>>)

\* current_markets = filter_current_markets(all_markets)
FilterCurrent ==
    /\ pc = "filter"
    /\ current_markets' = filter_current_markets(all_markets)
    /\ pc' = "filtered"
    /\ UNCHANGED <<max_pages, all_markets, cursor, page_count, calls, refiltered, names, args, files, saves, exit_code, faults>>

\* the classifier run once more, on its own output
FilterAgain ==
    /\ pc = "filtered"
    /\ refiltered' = filter_current_markets(current_markets)
    /\ pc' = "refiltered"
    /\ UNCHANGED <<max_pages, all_markets, cursor, page_count, calls, current_markets, names, args, files, saves, exit_code, faults>>

\* the classifier on every sequence of at most MaxLen entries
InitFilter ==
    /\ pc = "filter"
    /\ max_pages = 0
    /\ all_markets \in SeqsUpTo(Entries, MaxLen)
    /\ cursor = Sentinel
    /\ page_count = 0
    /\ calls = <<>>
    /\ current_markets = <<>>
    /\ refiltered = <<>>
    /\ names = <<>>
    /\ args = NoArgs
    /\ files = NoFiles
    /\ saves = <<>>
    /\ exit_code = NoExit
    /\ faults = <<>>

NextFilter == FilterCurrent \/ FilterAgain

SpecFilter == InitFilter /\ [][NextFilter]_vars

\* ------------------------------------------------------------------------
\* extract_market_names
\* ------------------------------------------------------------------------
\* characters str.strip() removes
Whitespace == {" ", "\t", "\n"}

RECURSIVE LStrip(_)
LStrip(cs) == IF cs # <<>> /\ Head(cs) \in Whitespace THEN LStrip(Tail(cs)) ELSE cs

RECURSIVE RStrip(_)
RStrip(cs) ==
    IF cs # <<>> /\ cs[Len(cs)] \in Whitespace THEN RStrip(SubSeq(cs, 1, Len(cs) - 1)) ELSE cs

\* value.strip()
Strip(cs) == RStrip(LStrip(cs))

\* the preference list with title before question
NameFields_TitleFirst == <<"title", "question", "name", "description", "market_slug">>

\* for field in ["question", "title", "name", "description", "market_slug"]
NameFields == <<"question", "title", "name", "description", "market_slug">>

\* market.get(field)
DictGet(market, field) == IF field \in DOMAIN market THEN market[field] ELSE NoneValue

\* the inner loop over the fields, from the i-th on; None when no field is
\* a string that is non-empty after strip()
RECURSIVE FieldLoop(_, _)
FieldLoop(market, i) ==
    IF i > Len(NameFields) THEN NoneValue
    ELSE LET value == DictGet(market, NameFields[i])
         IN  IF value.kind = "str" /\ Strip(value.chars) # <<>>
                THEN Str(Strip(value.chars))
                ELSE FieldLoop(market, i + 1)

\* a test that lets every record through
NameTruthy_Always(name) == TRUE

\* if name
NameTruthy(name) == name.kind = "str" /\ name.chars # <<>>

\* the body of `for market in markets`, from index i on, acc being the list
\* of names built so far
RECURSIVE ExtractLoop(_, _, _)
ExtractLoop(markets, i, acc) ==
    IF i > Len(markets) THEN acc
    ELSE IF ~markets[i].dict THEN ExtractLoop(markets, i + 1, acc)
    ELSE LET name == FieldLoop(markets[i], 1)
         IN  IF NameTruthy(name)
                THEN ExtractLoop(markets, i + 1, Append(acc, name.chars))
                ELSE ExtractLoop(markets, i + 1, acc)

extract_market_names(markets) == ExtractLoop(markets, 1, <<>>)

\* the letter that tells the usable value of one field from that of another
Letter(field) ==
    CASE field = "question" -> "Q"
      [] field = "title" -> "T"
      [] field = "name" -> "N"
      [] field = "description" -> "D"
      [] field = "market_slug" -> "S"

\* what a name field can hold: nothing, null, a number, the empty string,
\* whitespace only, or a padded text with a space inside
FieldKinds == {"absent", "null", "int", "empty", "blank", "padded"}

ValueOf(field, kind) ==
    CASE kind = "null" -> NoneValue
      [] kind = "int" -> NumValue
      [] kind = "empty" -> Str(<<>>)
      [] kind = "blank" -> Str(<<" ", "\t">>)
      [] kind = "padded" -> Str(<<" ", Letter(field), " ", Letter(field), "\n">>)

NameFieldSet == {NameFields[i] : i \in 1..Len(NameFields)}

\* the record whose name fields are of the kinds k gives them
NamedMarket(k) ==
    Market(JFalse, JFalse) @@
        [field \in {fl \in NameFieldSet : k[fl] # "absent"} |-> ValueOf(field, k[field])]

\* every combination of kinds over the five fields
NameRecords == {NamedMarket(k) : k \in [NameFieldSet -> FieldKinds]}

\* {"question": "", "title": "X"}
EmptyQuestionTitleX ==
    Market(JFalse, JFalse) @@ [question |-> Str(<<>>), title |-> Str(<<"X">>)]

\* {"title": "  ", "name": "Will it rain?"}
BlankTitleNameRain ==
    Market(JFalse, JFalse) @@
        [title |-> Str(<<" ", " ">>),
         name |-> Str(<<"W", "i", "l", "l", " ", "i", "t", " ", "r", "a", "i", "n", "?">>)]

\* the entries the longer inputs are made of
SmallNameEntries ==
    {NonDict, EmptyQuestionTitleX, BlankTitleNameRain,
     Market(JFalse, JFalse),
     Market(JFalse, JFalse) @@ [question |-> NumValue, description |-> Str(<<"\t">>)],
     Market(JFalse, JFalse) @@ [question |-> Str(<<" ", "Q">>), title |-> Str(<<"T">>)],
     Market(JTrue, JFalse) @@ [market_slug |-> Str(<<"S", " ">>)]}

\* names = extract_market_names(markets)
ExtractNames ==
    /\ pc = "extract"
    /\ names' = extract_market_names(all_markets)
    /\ pc' = "extracted"
    /\ UNCHANGED <<max_pages, all_markets, cursor, page_count, calls, current_markets,
                   refiltered, args, files, saves, exit_code, faults>>

\* the extractor on every single record of NameRecords and on every sequence
\* of at most MaxLen of the small entries
InitExtract ==
    /\ pc = "extract"
    /\ max_pages = 0
    /\ all_markets \in {<<m>> : m \in NameRecords} \cup SeqsUpTo(SmallNameEntries, MaxLen)
    /\ cursor = Sentinel
    /\ page_count = 0
    /\ calls = <<>>
    /\ current_markets = <<>>
    /\ refiltered = <<>>
    /\ names = <<>>
    /\ args = NoArgs
    /\ files = NoFiles
    /\ saves = <<>>
    /\ exit_code = NoExit
    /\ faults = <<>>

NextExtract == ExtractNames

SpecExtract == InitExtract /\ [][NextExtract]_vars

\* ------------------------------------------------------------------------
\* save_json and main
\* ------------------------------------------------------------------------
\* How a save_json call can end.  "ok": the value is written.  "untouched":
\* mkdir or open raised, the file is as it was.  "partial": open truncated
\* the file and json.dump did not finish.
SaveEffects == {"ok", "untouched", "partial"}

\* the file system after save_json(data, path) ended with the given effect
save_json(data, path, effect) ==
    CASE effect = "ok" -> [files EXCEPT ![path] = [state |-> "complete", data |-> data]]
      [] effect = "partial" -> [files EXCEPT ![path] = [state |-> "partial", data |-> <<>>]]
      [] effect = "untouched" -> files

\* one entry of the log of save_json calls; raised is "none", "Exception"
\* or "KeyboardInterrupt"
Saved(data, path, effect, raised) ==
    Append(saves, [path |-> path, data |-> data, effect |-> effect, raised |-> raised])

\* markets_path = Path(args.out) if args.out else script_dir / DEFAULT_OUTPUT_FILENAME
markets_path == IF args.out # None THEN args.out ELSE DEFAULT_OUTPUT_FILENAME

\* names_path = Path(args.names_out) if args.names_out else script_dir / DEFAULT_NAMES_OUTPUT_FILENAME
names_path == IF args.names_out # None THEN args.names_out ELSE DEFAULT_NAMES_OUTPUT_FILENAME

\* where the record set goes: current_markets_path or markets_path
RecordsPath == IF args.current THEN DEFAULT_CURRENT_MARKETS_FILENAME ELSE markets_path

\* where the names go: current_names_path or names_path
NamesPath == IF args.current THEN DEFAULT_CURRENT_NAMES_FILENAME ELSE names_path

\* the record set that is saved: current_markets or all_markets
RecordsToSave == IF args.current THEN current_markets ELSE all_markets

\* names always taken from the full set
NamesSource_AlwaysAll == all_markets

\* the record set the names are extracted from
NamesSource == IF args.current THEN current_markets ELSE all_markets

\* return code
Exit(code) == pc' = "exited" /\ exit_code' = code

\* the emptiness test skipped
NoneFetched_Never == FALSE

\* if not all_markets
NoneFetched == all_markets = <<>>

\* except KeyboardInterrupt: return 130
InterruptCode == ExitInterrupt

\* a handler that returns success
FaultCode_AsSuccess == ExitOk

\* except Exception: return 1
FaultCode == ExitFail

\* main enters the try block and fetch_all_markets builds its client
MainStart ==
    /\ pc = "main"
    /\ pc' = "loop"
    /\ UNCHANGED <<max_pages, all_markets, cursor, page_count, calls, current_markets,
                   refiltered, names, args, files, saves, exit_code, faults>>

\* fetch_all_markets returned: nothing fetched is exit 1, else the branch
\* on args.current
MainCheckFetched ==
    /\ pc = "returned"
    /\ IF NoneFetched THEN Exit(ExitFail)
       ELSE /\ pc' = IF args.current THEN "filter" ELSE "save_markets"
            /\ exit_code' = exit_code
    /\ UNCHANGED <<max_pages, all_markets, cursor, page_count, calls, current_markets,
                   refiltered, names, args, files, saves, faults>>

\* if not current_markets: return 1
MainCheckFiltered ==
    /\ pc = "filtered"
    /\ IF current_markets = <<>> THEN Exit(ExitFail)
       ELSE pc' = "save_markets" /\ exit_code' = exit_code
    /\ UNCHANGED <<max_pages, all_markets, cursor, page_count, calls, current_markets,
                   refiltered, names, args, files, saves, faults>>

\* save_json of the record set completes
SaveMarkets ==
    /\ pc = "save_markets"
    /\ files' = save_json(RecordsToSave, RecordsPath, "ok")
    /\ saves' = Saved(RecordsToSave, RecordsPath, "ok", "none")
    /\ pc' = "names"
    /\ UNCHANGED <<max_pages, all_markets, cursor, page_count, calls, current_markets,
                   refiltered, names, args, exit_code, faults>>

\* names = extract_market_names(current_markets or all_markets)
MainExtract ==
    /\ pc = "names"
    /\ names' = extract_market_names(NamesSource)
    /\ pc' = "save_names"
    /\ UNCHANGED <<max_pages, all_markets, cursor, page_count, calls, current_markets,
                   refiltered, args, files, saves, exit_code, faults>>

\* save_json of the names completes; return 0
SaveNames ==
    /\ pc = "save_names"
    /\ files' = save_json(names, NamesPath, "ok")
    /\ saves' = Saved(names, NamesPath, "ok", "none")
    /\ Exit(ExitOk)
    /\ UNCHANGED <<max_pages, all_markets, cursor, page_count, calls, current_markets,
                   refiltered, names, args, faults>>

\* save_json raises an Exception (OSError, TypeError): except Exception
SaveFault ==
    /\ pc \in {"save_markets", "save_names"}
    /\ \E effect \in {"untouched", "partial"} :
        LET data == IF pc = "save_markets" THEN RecordsToSave ELSE names
            path == IF pc = "save_markets" THEN RecordsPath ELSE NamesPath
        IN  /\ files' = save_json(data, path, effect)
            /\ saves' = Saved(data, path, effect, "Exception")
    /\ Exit(FaultCode)
    /\ UNCHANGED <<max_pages, all_markets, cursor, page_count, calls, current_markets,
                   refiltered, names, args, faults>>

\* KeyboardInterrupt during save_json: except KeyboardInterrupt
SaveInterrupt ==
    /\ pc \in {"save_markets", "save_names"}
    /\ \E effect \in {"untouched", "partial"} :
        LET data == IF pc = "save_markets" THEN RecordsToSave ELSE names
            path == IF pc = "save_markets" THEN RecordsPath ELSE NamesPath
        IN  /\ files' = save_json(data, path, effect)
            /\ saves' = Saved(data, path, effect, "KeyboardInterrupt")
    /\ Exit(InterruptCode)
    /\ UNCHANGED <<max_pages, all_markets, cursor, page_count, calls, current_markets,
                   refiltered, names, args, faults>>

\* the same Exception raised where no handler of main covers it
MainFault_Escapes ==
    /\ pc \in {"main", "filter", "names"}
    /\ faults' = Append(faults, [at |-> pc, raised |-> "Exception"])
    /\ pc' = "escaped"
    /\ UNCHANGED <<max_pages, all_markets, cursor, page_count, calls, current_markets,
                   refiltered, names, args, files, saves, exit_code>>

\* an Exception outside the page loop's own handler: in the ClobClient
\* constructor, or while filtering or extracting; except Exception
MainFault ==
    /\ pc \in {"main", "filter", "names"}
    /\ faults' = Append(faults, [at |-> pc, raised |-> "Exception"])
    /\ Exit(FaultCode)
    /\ UNCHANGED <<max_pages, all_markets, cursor, page_count, calls, current_markets,
                   refiltered, names, args, files, saves>>

\* KeyboardInterrupt that left fetch_all_markets (it is in the log of the
\* calls), or that arrives while the client is built, while filtering or
\* while extracting
MainInterrupt ==
    /\ pc \in {"main", "raised", "filter", "names"}
    /\ faults' = IF pc = "raised" THEN faults
                 ELSE Append(faults, [at |-> pc, raised |-> "KeyboardInterrupt"])
    /\ Exit(InterruptCode)
    /\ UNCHANGED <<max_pages, all_markets, cursor, page_count, calls, current_markets,
                   refiltered, names, args, files, saves>>

\* what parse_args can give: --current or not, and --out with --names-out
\* given or not
ArgSets ==
    {[current |-> c, out |-> None, names_out |-> None] : c \in BOOLEAN}
        \cup {[current |-> c, out |-> CustomOut, names_out |-> CustomNamesOut] : c \in BOOLEAN}

InitMain ==
    /\ pc = "main"
    /\ max_pages \in 0..MaxPagesMain
    /\ args \in ArgSets
    /\ all_markets = <<>>
    /\ cursor = Sentinel
    /\ page_count = 0
    /\ calls = <<>>
    /\ current_markets = <<>>
    /\ refiltered = <<>>
    /\ names = <<>>
    /\ files = NoFiles
    /\ saves = <<>>
    /\ exit_code = NoExit
    /\ faults = <<>>

NextMain ==
    \/ MainStart
    \/ FetchPage \/ FetchMalformed \/ FetchFault \/ FetchInterrupt \/ LoopExit
    \/ MainCheckFetched
    \/ FilterCurrent
    \/ MainCheckFiltered
    \/ SaveMarkets
    \/ MainExtract
    \/ SaveNames
    \/ SaveFault
    \/ SaveInterrupt
    \/ MainFault
    \/ MainInterrupt

SpecMain == InitMain /\ [][NextMain]_vars

\* ------------------------------------------------------------------------
\* Properties of fetch_all_markets (checked under Spec)
\* ------------------------------------------------------------------------
\* the records of the well-formed pages among the first n calls, in call order
RECURSIVE ConcatPages(_, _)
ConcatPages(log, n) ==
    IF n = 0 THEN <<>>
    ELSE ConcatPages(log, n - 1)
            \o (IF log[n].response.kind = "page" THEN log[n].response.data ELSE <<>>)

RECURSIVE SumPageLens(_, _)
SumPageLens(log, n) ==
    IF n = 0 THEN 0
    ELSE SumPageLens(log, n - 1)
            + (IF log[n].response.kind = "page" THEN Len(log[n].response.data) ELSE 0)

\* call k returned a well-formed page with a non-empty token that differs
\* from the cursor that call sent
Progressing(k) ==
    /\ calls[k].response.kind = "page"
    /\ Truthy(calls[k].response.next_cursor)
    /\ calls[k].response.next_cursor # calls[k].cursor

AlwaysProgress == \A k \in 1..Len(calls) : Progressing(k)

\* C1: with max_pages >= 1 and a transport whose every answer is a
\* well-formed page with a fresh non-empty token, the transport is called at
\* most max_pages times, the function does not raise, it has made exactly
\* max_pages calls when it has returned, and after max_pages calls the only
\* step left is the return.
C1_PaginationCap ==
    (max_pages >= 1 /\ AlwaysProgress) =>
        /\ Len(calls) <= max_pages
        /\ pc # "raised"
        /\ (pc = "returned" => Len(calls) = max_pages)
        /\ (pc = "loop" /\ Len(calls) = max_pages =>
                ENABLED LoopExit /\ ~ENABLED (FetchPage \/ FetchMalformed \/ FetchFault \/ FetchInterrupt))

C1_Witness ==
    /\ pc = "returned"
    /\ max_pages >= 2
    /\ AlwaysProgress
    /\ Len(calls) = max_pages

\* C2: a well-formed page whose token equals the cursor just sent is the last
\* call of the run: the function has returned, and the result holds the
\* records of the pages up to and including that one, each once.
C2_CycleStops ==
    \A k \in 1..Len(calls) :
        (calls[k].response.kind = "page" /\ calls[k].response.next_cursor = calls[k].cursor) =>
            /\ k = Len(calls)
            /\ pc = "returned"
            /\ all_markets = ConcatPages(calls, k - 1) \o calls[k].response.data

C2_Witness ==
    /\ pc = "returned"
    /\ Len(calls) >= 2
    /\ calls[Len(calls)].response.kind = "page"
    /\ calls[Len(calls)].response.next_cursor = calls[Len(calls)].cursor
    /\ calls[Len(calls)].response.data # <<>>

\* C3: at every point of the run, and so at the return, the accumulated list
\* is the concatenation, in call order, of the records of the well-formed
\* pages received, and its length is the sum of their lengths.
C3_ResultIsConcatenation ==
    /\ all_markets = ConcatPages(calls, Len(calls))
    /\ Len(all_markets) = SumPageLens(calls, Len(calls))

C3_Witness ==
    /\ pc = "returned"
    /\ Len(calls) >= 2
    /\ calls[1].response.kind = "page"
    /\ calls[2].response.kind = "page"
    /\ Len(calls[1].response.data) = 2
    /\ calls[1].response.data[1] # calls[1].response.data[2]
    /\ Len(calls[2].response.data) >= 1
    /\ calls[2].response.data # calls[1].response.data

\* the scenario of two pages: two records with token "B", then one record
\* with no token
TwoPageScenario ==
    /\ Len(calls) >= 2
    /\ calls[1].response.kind = "page"
    /\ Len(calls[1].response.data) = 2
    /\ calls[1].response.next_cursor = "B"
    /\ calls[2].response.kind = "page"
    /\ Len(calls[2].response.data) = 1
    /\ calls[2].response.next_cursor = None

\* C4: the first call sends the sentinel, each later call sends the token of
\* the page before it, a well-formed page with an absent or empty token is
\* the last call and its records are in the result, and the two-page
\* scenario gives three records in order after exactly two calls.
C4_CursorThreading ==
    /\ \A k \in 1..Len(calls) :
        /\ (k = 1 => calls[k].cursor = Sentinel)
        /\ (k > 1 => /\ calls[k - 1].response.kind = "page"
                     /\ calls[k].cursor = calls[k - 1].response.next_cursor)
        /\ (calls[k].response.kind = "page" /\ calls[k].response.next_cursor \in {None, ""} =>
                /\ k = Len(calls)
                /\ pc = "returned"
                /\ all_markets = ConcatPages(calls, k - 1) \o calls[k].response.data)
    /\ (TwoPageScenario =>
            /\ Len(calls) = 2
            /\ pc = "returned"
            /\ Len(all_markets) = 3
            /\ all_markets = calls[1].response.data \o calls[2].response.data)

C4_Witness ==
    /\ TwoPageScenario
    /\ pc = "returned"
    /\ calls[2].cursor = "B"

\* C5: a response that is not a dict holding "data" is the last call of the
\* run; the function has returned (it did not raise) and the result is the
\* records of the pages before it.
C5_MalformedStops ==
    \A k \in 1..Len(calls) :
        calls[k].response.kind \in {"nodata", "notdict"} =>
            /\ k = Len(calls)
            /\ pc = "returned"
            /\ all_markets = ConcatPages(calls, k - 1)
            /\ (k = 1 => all_markets = <<>>)

C5_Witness ==
    /\ pc = "returned"
    /\ Len(calls) >= 2
    /\ calls[Len(calls)].response.kind \in {"nodata", "notdict"}
    /\ all_markets # <<>>

\* C6: a call that raised a fault is the last call of the run (no retry);
\* the function has returned (the fault did not leave it) and the result is
\* the records of the pages before the failed call.
C6_FaultStops ==
    \A k \in 1..Len(calls) :
        calls[k].response.kind = "exception" =>
            /\ k = Len(calls)
            /\ pc = "returned"
            /\ all_markets = ConcatPages(calls, k - 1)

C6_Witness ==
    /\ pc = "returned"
    /\ Len(calls) >= 2
    /\ calls[Len(calls)].response.kind = "exception"
    /\ all_markets # <<>>

\* C16 as stated: every cursor sent differs from every cursor sent earlier
\* in the run.
C16_AllCursorsFresh ==
    \A j \in 1..Len(calls) : \A k \in 1..Len(calls) :
        j < k => calls[j].cursor # calls[k].cursor

\* C16 as amended: every cursor sent differs from the cursor sent
\* immediately before it, and a well-formed page whose token equals the
\* cursor just sent is the last call of the run; cursors sent two or more
\* calls earlier are not compared with.
C16_SuccessiveCursorsDiffer ==
    \A k \in 1..Len(calls) :
        /\ (k > 1 => calls[k].cursor # calls[k - 1].cursor)
        /\ (calls[k].response.kind = "page" /\ calls[k].response.next_cursor = calls[k].cursor =>
                k = Len(calls) /\ pc = "returned")

\* a server cycling with period two: the third call sends the first cursor
C16_Witness ==
    /\ Len(calls) >= 3
    /\ calls[3].cursor = calls[1].cursor
    /\ calls[2].cursor # calls[1].cursor

\* max(max_pages, 0)
CapOrZero == IF max_pages > 0 THEN max_pages ELSE 0

\* C19: whatever the transport answers, the transport is never called more
\* than max(max_pages, 0) times, with max_pages <= 0 it is not called and
\* the function returns the empty list, and the function terminates.
C19_BoundedTermination ==
    /\ [](Len(calls) <= CapOrZero)
    /\ [](max_pages <= 0 => /\ calls = <<>>
                            /\ all_markets = <<>>
                            /\ pc \in {"loop", "returned"})
    /\ <>(pc \in {"returned", "raised"})

\* three calls against a server that cycles A -> B -> A, stopped by the cap
C19_Witness ==
    /\ pc = "returned"
    /\ max_pages = 3
    /\ Len(calls) = 3
    /\ AlwaysProgress
    /\ calls[3].cursor = calls[1].cursor

\* ------------------------------------------------------------------------
\* Properties of filter_current_markets (checked under SpecFilter)
\* ------------------------------------------------------------------------
\* the field is present and its value compares equal to false
PresentAndFalse(v) == v # Absent /\ PyEqFalse(v)

\* C7: the classifier returns no more records than it was given, and every
\* returned record has closed present and equal to false and archived
\* present and equal to false.
C7_ReturnedAreOpen ==
    pc \in {"filtered", "refiltered"} =>
        /\ Len(current_markets) <= Len(all_markets)
        /\ \A i \in 1..Len(current_markets) :
            /\ PresentAndFalse(current_markets[i].closed)
            /\ PresentAndFalse(current_markets[i].archived)

\* C8: no record whose closed field is absent or whose archived field is
\* absent is in the output of the classifier.
C8_AbsentExcluded ==
    pc \in {"filtered", "refiltered"} =>
        \A i \in 1..Len(current_markets) :
            /\ current_markets[i].closed # Absent
            /\ current_markets[i].archived # Absent

C8_Witness ==
    /\ pc = "filtered"
    /\ \E i \in 1..Len(all_markets) :
        /\ all_markets[i].dict
        /\ all_markets[i].closed = Absent
        /\ all_markets[i].archived = JFalse
    /\ \E i \in 1..Len(all_markets) :
        /\ all_markets[i].dict
        /\ all_markets[i].closed = JFalse
        /\ all_markets[i].archived = Absent
    /\ current_markets = <<>>

\* the mapping records with closed = false and archived = false
IsOpenMapping(m) == m.dict /\ PresentAndFalse(m.closed) /\ PresentAndFalse(m.archived)

\* C9: the output of the classifier is the subsequence of its input made of
\* exactly the mapping records with closed = false and archived = false, in
\* their original order.
C9_ExactSubsequence ==
    pc \in {"filtered", "refiltered"} =>
        current_markets = SelectSeq(all_markets, IsOpenMapping)

\* C10: the classifier applied to its own output returns that output.
C10_Idempotent ==
    pc = "refiltered" => refiltered = current_markets

C10_Witness ==
    /\ pc = "refiltered"
    /\ Len(current_markets) >= 1
    /\ Len(current_markets) < Len(all_markets)
    /\ refiltered = current_markets

\* ------------------------------------------------------------------------
\* Properties of extract_market_names (checked under SpecExtract)
\* ------------------------------------------------------------------------
\* the order of preference the specification states
Preference == <<"question", "title", "name", "description", "market_slug">>

\* the field is present and holds a string with a character that is not
\* whitespace
Usable(m, field) ==
    /\ field \in DOMAIN m
    /\ m[field].kind = "str"
    /\ \E i \in 1..Len(m[field].chars) : m[field].chars[i] \notin Whitespace

HasUsable(m) == m.dict /\ \E i \in 1..Len(Preference) : Usable(m, Preference[i])

\* the first usable field in the order of preference
FirstUsable(m) ==
    Preference[CHOOSE i \in 1..Len(Preference) :
                    /\ Usable(m, Preference[i])
                    /\ \A j \in 1..(i - 1) : ~Usable(m, Preference[j])]

\* cs from its first to its last character that is not whitespace
Trimmed(cs) ==
    LET solid == {i \in 1..Len(cs) : cs[i] \notin Whitespace}
        lo == CHOOSE i \in solid : \A j \in solid : i <= j
        hi == CHOOSE i \in solid : \A j \in solid : j <= i
    IN  SubSeq(cs, lo, hi)

\* the name the specification gives a record that has a usable field
ExpectedName(m) == Trimmed(m[FirstUsable(m)].chars)

\* C11: for a record with a usable name field, the name produced is the
\* trimmed value of the first field, in the order question, title, name,
\* description, market_slug, that is present and holds a string that is
\* non-empty after trimming; question="" with title="X" yields "X", and
\* title="  " with name="Will it rain?" yields "Will it rain?".
C11_FirstUsableFieldTrimmed ==
    pc = "extracted" =>
        /\ (Len(all_markets) = 1 /\ HasUsable(all_markets[1]) =>
                names = <<ExpectedName(all_markets[1])>>)
        /\ (all_markets = <<EmptyQuestionTitleX>> => names = << <<"X">> >>)
        /\ (all_markets = <<BlankTitleNameRain>> =>
                names = << <<"W", "i", "l", "l", " ", "i", "t", " ", "r", "a", "i", "n", "?">> >>)

\* a record whose question is whitespace only, whose title is a number and
\* whose name and description are both usable: name is chosen and trimmed
C11_Witness ==
    /\ pc = "extracted"
    /\ Len(all_markets) = 1
    /\ all_markets[1] = NamedMarket([question |-> "blank", title |-> "int", name |-> "padded",
                                     description |-> "padded", market_slug |-> "absent"])
    /\ names = << <<"N", " ", "N">> >>

\* the names the specification expects of a sequence of entries
RECURSIVE ExpectedNames(_)
ExpectedNames(ms) ==
    IF ms = <<>> THEN <<>>
    ELSE (IF HasUsable(Head(ms)) THEN <<ExpectedName(Head(ms))>> ELSE <<>>)
            \o ExpectedNames(Tail(ms))

\* C12: the output holds, in input order, one entry for each record with a
\* usable name field and nothing for the other entries; it is never longer
\* than the input and holds only non-empty strings that neither start nor
\* end with whitespace.
C12_OneEntryPerNamedRecord ==
    pc = "extracted" =>
        /\ names = ExpectedNames(all_markets)
        /\ Len(names) <= Len(all_markets)
        /\ \A i \in 1..Len(names) :
            /\ names[i] # <<>>
            /\ names[i][1] \notin Whitespace
            /\ names[i][Len(names[i])] \notin Whitespace

\* an input with a non-mapping, a record without a usable field and a named
\* record after them
C12_Witness ==
    /\ pc = "extracted"
    /\ Len(all_markets) = 2
    /\ all_markets[1] = Market(JFalse, JFalse) @@ [question |-> NumValue, description |-> Str(<<"\t">>)]
    /\ all_markets[2] = Market(JTrue, JFalse) @@ [market_slug |-> Str(<<"S", " ">>)]
    /\ names = << <<"S">> >>

\* ------------------------------------------------------------------------
\* Properties of main (checked under SpecMain)
\* ------------------------------------------------------------------------
\* nothing was handed to save_json and no destination holds anything
NothingPersisted == saves = <<>> /\ files = [p \in Paths |-> Unwritten]

\* C13: when fetch_all_markets has returned no record, and when in current
\* mode the classifier has returned no record, the next step of the run is
\* the return of exit code 1, and nothing has been or is persisted.
C13_EmptyResultExits1 ==
    [][ ((pc = "returned" /\ all_markets = <<>>)
            \/ (pc = "filtered" /\ current_markets = <<>>))
        => /\ pc' = "exited"
           /\ exit_code' = 1
           /\ NothingPersisted
           /\ NothingPersisted' ]_vars

\* the last page of the fetch was well-formed and empty-handed, so the
\* function returned normally with no record, and main returned 1
C13_Witness ==
    /\ pc = "exited"
    /\ exit_code = 1
    /\ Len(calls) >= 1
    /\ calls[Len(calls)].response.kind = "page"
    /\ all_markets = <<>>
    /\ NothingPersisted

\* C14: a KeyboardInterrupt raised by a transport call is the last call, it
\* is not turned into a return of fetch_all_markets, and the run ends with
\* exit code 130; so does a run interrupted while the client is built, while
\* filtering, while extracting, or inside either save_json.
C14_InterruptExits130 ==
    /\ \A k \in 1..Len(calls) :
        calls[k].response.kind = "interrupt" =>
            /\ k = Len(calls)
            /\ pc \in {"raised", "exited"}
            /\ (pc = "exited" => exit_code = 130)
            /\ NothingPersisted
    /\ \A i \in 1..Len(saves) :
        saves[i].raised = "KeyboardInterrupt" => pc = "exited" /\ exit_code = 130
    /\ \A i \in 1..Len(faults) :
        faults[i].raised = "KeyboardInterrupt" => pc = "exited" /\ exit_code = 130

\* the second transport call is interrupted after records were accumulated
C14_Witness ==
    /\ pc = "exited"
    /\ exit_code = 130
    /\ Len(calls) = 2
    /\ calls[2].response.kind = "interrupt"
    /\ all_markets # <<>>

\* the steps of main around the fetch and the filter
StepOfMain ==
    \/ MainStart \/ MainCheckFetched \/ FilterCurrent \/ MainCheckFiltered \/ MainInterrupt

\* where a run that has not returned can be: inside the try block
RunningPositions ==
    {"main", "loop", "returned", "raised", "filter", "filtered", "save_markets", "names",
     "save_names"}

FetchStoppedEarly ==
    /\ Len(calls) >= 1
    /\ calls[Len(calls)].response.kind \in {"exception", "baddata", "nodata", "notdict"}

\* nothing was raised after fetch_all_markets returned
NoLaterFault ==
    /\ faults = <<>>
    /\ \A i \in 1..Len(saves) : saves[i].raised = "none"

\* current mode, and no fetched record is current
EmptyFilterResult == args.current /\ all_markets # <<>> /\ current_markets = <<>>

\* C17: a run whose page loop was stopped by a transport fault or a
\* malformed response, with no later fault and no empty filter result, ends
\* with exit code 0 and both artifacts persisted from the partial list when
\* that list is non-empty, and with exit code 1 when it is empty.
C17_PartialFetchIsSuccess ==
    (pc = "exited" /\ FetchStoppedEarly /\ NoLaterFault /\ ~EmptyFilterResult) =>
        /\ (all_markets = <<>> <=> exit_code = 1)
        /\ (all_markets # <<>> =>
                /\ exit_code = 0
                /\ all_markets = ConcatPages(calls, Len(calls) - 1)
                /\ Len(saves) = 2
                /\ saves[1].data = IF args.current THEN current_markets ELSE all_markets
                /\ saves[1].effect = "ok"
                /\ saves[2].effect = "ok")

\* the second call raised after the first page brought records; exit 0
C17_Witness ==
    /\ pc = "exited"
    /\ exit_code = 0
    /\ Len(calls) = 2
    /\ calls[2].response.kind = "exception"
    /\ all_markets # <<>>
    /\ Len(saves) = 2

\* the destinations of the default mode
DefaultDestinations ==
    {DEFAULT_OUTPUT_FILENAME, DEFAULT_NAMES_OUTPUT_FILENAME, CustomOut, CustomNamesOut}

\* the fixed destinations of the current-only mode
CurrentDestinations == {DEFAULT_CURRENT_MARKETS_FILENAME, DEFAULT_CURRENT_NAMES_FILENAME}

Complete(data) == [state |-> "complete", data |-> data]

\* C18: after a run that returned 0, in default mode the record destination
\* (--out or markets.json) holds the full list and the names destination
\* holds extract_market_names of the full list; in current-only mode
\* current_markets.json holds filter_current_markets of the full list and
\* current_market_names.json holds extract_market_names of that filtered
\* list; at every point of a run the destinations of the other mode hold
\* nothing.
C18_PipelineByMode ==
    /\ (args.current => \A p \in DefaultDestinations : files[p] = Unwritten)
    /\ (~args.current => \A p \in CurrentDestinations : files[p] = Unwritten)
    /\ (pc = "exited" /\ exit_code = 0 /\ ~args.current =>
            /\ files[IF args.out = None THEN DEFAULT_OUTPUT_FILENAME ELSE CustomOut]
                    = Complete(all_markets)
            /\ files[IF args.names_out = None THEN DEFAULT_NAMES_OUTPUT_FILENAME ELSE CustomNamesOut]
                    = Complete(extract_market_names(all_markets)))
    /\ (pc = "exited" /\ exit_code = 0 /\ args.current =>
            /\ files[DEFAULT_CURRENT_MARKETS_FILENAME]
                    = Complete(filter_current_markets(all_markets))
            /\ files[DEFAULT_CURRENT_NAMES_FILENAME]
                    = Complete(extract_market_names(filter_current_markets(all_markets))))

\* current-only mode with --out given, a fetched list holding a market that
\* is not current, and names that differ from those of the full list
C18_Witness ==
    /\ pc = "exited"
    /\ exit_code = 0
    /\ args.current
    /\ args.out = CustomOut
    /\ Len(current_markets) < Len(all_markets)
    /\ files[DEFAULT_CURRENT_NAMES_FILENAME].data # extract_market_names(all_markets)
    /\ files[DEFAULT_CURRENT_NAMES_FILENAME].data # <<>>

\* C20: save_json is called at most twice, first for the record set and
\* then, only after that call completed, for the names; main returns 0
\* exactly when both calls completed, and then the record destination holds
\* a non-empty list; when the second call raises an Exception main returns
\* 1 and the record destination still holds what the first call wrote.
C20_PersistOrderAndExit0 ==
    /\ Len(saves) <= 2
    /\ (Len(saves) >= 1 =>
            saves[1].path \in {DEFAULT_OUTPUT_FILENAME, CustomOut, DEFAULT_CURRENT_MARKETS_FILENAME})
    /\ (Len(saves) = 2 =>
            /\ saves[1].effect = "ok"
            /\ saves[2].path \in {DEFAULT_NAMES_OUTPUT_FILENAME, CustomNamesOut,
                                  DEFAULT_CURRENT_NAMES_FILENAME})
    /\ (pc = "exited" =>
            (exit_code = 0 <=> Len(saves) = 2 /\ saves[1].effect = "ok" /\ saves[2].effect = "ok"))
    /\ (pc = "exited" /\ exit_code = 0 =>
            /\ files[saves[1].path].state = "complete"
            /\ files[saves[1].path].data # <<>>)
    /\ (Len(saves) = 2 /\ saves[2].raised = "Exception" =>
            /\ pc = "exited"
            /\ exit_code = 1
            /\ files[saves[1].path] = Complete(saves[1].data))

\* the names save failed half-way after the record save completed
C20_Witness ==
    /\ pc = "exited"
    /\ exit_code = 1
    /\ Len(saves) = 2
    /\ saves[2].raised = "Exception"
    /\ saves[2].effect = "partial"
    /\ files[saves[1].path].state = "complete"
    /\ files[saves[2].path].state = "partial"

====
